---- MODULE Spec2Model ----
(***************************************************************************)
(* Model of agent/run_agent.py: the patch generation / apply / test /      *)
(* repair loop of the autonomous code-change agent.                        *)
(*                                                                         *)
(* Texts (model output, diffs) are sequences of tokens:                    *)
(*   "D"  the diff-start marker  `diff --git`                              *)
(*   "O"  the open marker        `<Project`                                *)
(*   "C"  the close marker       `</Project>`                              *)
(*   "M"  a hunk that modifies a file tracked by git                       *)
(*   "N"  a hunk that creates a new file                                   *)
(*   "x"  any other non-blank text                                         *)
(*   " "  a blank,  "n"  a newline                                         *)
(*                                                                         *)
(* The worktree is what `git status --porcelain` can see: the diffs whose  *)
(* modifications of tracked files are present (mods) and the diffs whose   *)
(* newly created, untracked files are present (files).                     *)
(*                                                                         *)
(* Environment: the git commands status, checkout -B, reset --hard, add    *)
(* and commit complete normally; the model backend, git apply, the test    *)
(* harness, git push and the hosting API can fail. git apply is atomic: a  *)
(* failed apply leaves the worktree untouched.                             *)
(***************************************************************************)
EXTENDS Integers, Sequences, FiniteSets, TLC

\* -------------------------------------------------------- configuration
\* line 24, the default
MAX_DIFF_ATTEMPTS == 3

\* number of distinct outputs the test harness can print
NumTestOutputs == 2

\* longest model response the extractor is tried on, in tokens
MaxTextLen == 4

\* ----------------------------------------------------------- primitives
None == "None"

TASK == <<"add a Clamp function">>

Blank == {" ", "n"}

RawResponses ==
    { <<"x">>,
      <<"x", "D", "M", " ">>,
      <<"D", "N">>,
      <<"D", "O", "M">> }

TestOutputs == { <<"test output", ToString(i)>> : i \in 1..NumTestOutputs }

RECURSIVE Count(_, _)
Count(s, tok) ==
    IF s = <<>> THEN 0
    ELSE (IF Head(s) = tok THEN 1 ELSE 0) + Count(Tail(s), tok)

Has(s, tok) == \E i \in 1..Len(s) : s[i] = tok

RECURSIVE lstrip(_)
lstrip(s) ==
    IF s # <<>> /\ Head(s) \in Blank THEN lstrip(Tail(s)) ELSE s

RECURSIVE rstrip(_)
rstrip(s) ==
    IF s # <<>> /\ s[Len(s)] \in Blank THEN rstrip(SubSeq(s, 1, Len(s) - 1)) ELSE s

strip(s) == rstrip(lstrip(s))

\* mutant: the pattern accepts a marker with nothing after it ([\s\S]*)
MatchStarts_Bare(text) == { i \in 1..Len(text) : text[i] = "D" }

\* re.search(r"(diff --git[\s\S]+)", text): leftmost marker followed by at
\* least one more character; the group runs to the end of the text.
MatchStarts(text) == { i \in 1..Len(text) : text[i] = "D" /\ i < Len(text) }

Min(S) == CHOOSE m \in S : \A k \in S : m <= k

Ok(d) == [ok |-> TRUE, diff |-> d, err |-> None]
Err(m) == [ok |-> FALSE, diff |-> <<>>, err |-> m]

\* mutant: only the presence of a close marker is required, not the count
extract_diff_NoCount(text) ==
    IF MatchStarts(text) = {}
    THEN Err("No git diff found in model output.")
    ELSE LET d == strip(SubSeq(text, Min(MatchStarts(text)), Len(text))) \o <<"n">>
         IN  IF Has(d, "O") /\ ~Has(d, "C")
             THEN Err("Incomplete XML in diff (missing </Project>).")
             ELSE Ok(d)

extract_diff(text) ==
    IF MatchStarts(text) = {}
    THEN Err("No git diff found in model output.")
    ELSE LET d == strip(SubSeq(text, Min(MatchStarts(text)), Len(text))) \o <<"n">>
         IN  IF Has(d, "O") /\ ~Has(d, "C")
             THEN Err("Incomplete XML in diff (missing </Project>).")
             ELSE IF Has(d, "O") /\ Count(d, "O") # Count(d, "C")
             THEN Err("Mismatched <Project> XML tags in diff.")
             ELSE Ok(d)

\* mutant: the previous failure is not folded into the prompt
Prompt_NoFeedback(task, le) == task

\* prompt of one attempt (generate_and_apply, lines 215-221)
Prompt(task, le) ==
    IF le # None /\ le # ""
    THEN task \o <<"PREVIOUS FAILURE:", le, "Return a corrected FULL git diff. Output ONLY the diff.">>
    ELSE task

\* mutant: the repair task leaves the test output out
FixTask_NoOutput(task, output) == task

\* fix_task of main (line 268)
FixTask(task, output) == task \o <<"TEST OUTPUT:">> \o output

\* ------------------------------------------------------------- worktree
CleanTree == [mods |-> <<>>, files |-> <<>>]

\* mutant: untracked files are not looked at (status -uno)
IsClean_TrackedOnly(wt) == wt.mods = <<>>

\* git status --porcelain prints nothing
IsClean(wt) == wt.mods = <<>> /\ wt.files = <<>>

\* git reset --hard: tracked files go back to HEAD, untracked files stay
ResetHard(wt) == [wt EXCEPT !.mods = <<>>]

\* git apply: modifications land on tracked files, new files are created
ApplyDiff(wt, d) ==
    [mods  |-> IF Has(d, "M") THEN Append(wt.mods, d) ELSE wt.mods,
     files |-> IF Has(d, "N") THEN Append(wt.files, d) ELSE wt.files]

\* git apply --check: the stderr texts it can end with (None: exit 0)
CheckOutcomes(wt, d) ==
    IF ~Has(d, "M") /\ ~Has(d, "N")
    THEN {"error: No valid patches in input"}
    ELSE IF Has(d, "N") /\ wt.files # <<>>
    THEN {"error: already exists in working directory"}
    ELSE {None, "error: patch does not apply"}

StartTrees ==
    { CleanTree,
      [mods |-> <<"local edit">>, files |-> <<>>],
      [mods |-> <<>>, files |-> <<"local file">>] }

\* ---------------------------------------------------------------- state
VARIABLES
    pc,             \* the call main is about to make
    phase,          \* which generate_and_apply call of main is active
    pr,             \* args.pr
    worktree,       \* the working copy as git status sees it
    commits,        \* commits created on the branch by this run
    branch,         \* the agent branch was checked out
    pushed,         \* number of successful pushes of the branch
    pr_number,      \* 0, or the number of the pull request opened
    auto_merge,     \* auto-merge was enabled on the pull request
    task_arg,       \* parameter task of generate_and_apply
    attempt,        \* loop variable of generate_and_apply
    last_error,     \* last_error of generate_and_apply
    raw,            \* raw model response of the attempt
    diff,           \* extracted diff of the attempt
    caught,         \* str(e) of the exception the except clause holds
    tests,          \* results (ok, output) of the run_tests calls so far
    exc,            \* the exception that ended the run
    \* observation (history) variables
    wt0,            \* worktree found at the start of the run
    calls,          \* every backend call: phase, attempt, prompt, worktree, rollbacks so far
    results,        \* every finished attempt: phase, attempt, outcome, error
    rollbacks,      \* number of hard_reset calls
    statusChecks,   \* number of git status cleanliness checks
    repairLoops,    \* number of repair sub-loops entered
    pendingFailure, \* a failure happened and no hard_reset since
    checked,        \* diff accepted by git apply --check in this attempt
    applies         \* every git apply call: diff, checked diff, pendingFailure

start   == <<pr, wt0, statusChecks, branch>>
publ    == <<commits, pushed, pr_number, auto_merge>>
locals  == <<task_arg, attempt, last_error, raw, diff, caught>>
loopobs == <<calls, results, rollbacks, pendingFailure, checked, applies>>

vars == <<pc, phase, worktree, tests, exc, repairLoops, start, publ, locals, loopobs>>

NoExc == [kind |-> "none", msg |-> <<>>]

Raise(kind, msg) == [kind |-> kind, msg |-> msg]

\* mutant: the raise of line 239 leaves the last error out
CeilingError_NoDetail(le) ==
    Raise("ceiling", <<"Failed after", ToString(MAX_DIFF_ATTEMPTS), "attempts.">>)

\* line 239
CeilingError(le) ==
    Raise("ceiling", <<"Failed after", ToString(MAX_DIFF_ATTEMPTS), "attempts. Last error:", le>>)

Init ==
    /\ pc = "ensure_clean_worktree"
    /\ phase = "none"
    /\ pr \in BOOLEAN
    /\ worktree \in StartTrees
    /\ wt0 = worktree
    /\ commits = <<>>
    /\ branch = FALSE
    /\ pushed = 0
    /\ pr_number = 0
    /\ auto_merge = FALSE
    /\ task_arg = <<>>
    /\ attempt = 0
    /\ last_error = None
    /\ raw = <<>>
    /\ diff = <<>>
    /\ caught = None
    /\ tests = <<>>
    /\ exc = NoExc
    /\ calls = <<>>
    /\ results = <<>>
    /\ rollbacks = 0
    /\ statusChecks = 0
    /\ repairLoops = 0
    /\ pendingFailure = FALSE
    /\ checked = <<>>
    /\ applies = <<>>

\* ---------------------------------------------------------------- main
\* ensure_clean_worktree (lines 74-80), called at line 257
EnsureCleanWorktree ==
    /\ pc = "ensure_clean_worktree"
    /\ statusChecks' = statusChecks + 1
    /\ IF IsClean(worktree)
       THEN pc' = "create_branch" /\ exc' = exc
       ELSE pc' = "failed" /\ exc' = Raise("dirty", <<"Working tree is not clean.">>)
    /\ UNCHANGED <<phase, worktree, tests, repairLoops, pr, wt0, branch, publ, locals, loopobs>>

\* create_branch (lines 85-86, 259-260) and the entry of
\* generate_and_apply(task) (lines 262, 210-212)
CreateBranch ==
    /\ pc = "create_branch"
    /\ branch' = TRUE
    /\ phase' = "primary"
    /\ task_arg' = TASK
    /\ last_error' = None
    /\ attempt' = 1
    /\ IF 1 <= MAX_DIFF_ATTEMPTS
       THEN pc' = "call_ollama" /\ exc' = exc
       ELSE pc' = "failed" /\ exc' = CeilingError(None)
    /\ UNCHANGED <<worktree, tests, repairLoops, pr, wt0, statusChecks, publ,
                   raw, diff, caught, loopobs>>

\* ------------------------------------------------- generate_and_apply
\* an attempt ends in the except clause (line 234) with message m
Fail(outcome, m) ==
    /\ pc' = "hard_reset"
    /\ caught' = m
    /\ pendingFailure' = TRUE
    /\ results' = Append(results, [phase |-> phase, attempt |-> attempt,
                                   outcome |-> outcome, error |-> m])

\* lines 215-225: compose the prompt and call the backend
CallOllama ==
    /\ pc = "call_ollama"
    /\ calls' = Append(calls, [phase |-> phase, attempt |-> attempt,
                               prompt |-> Prompt(task_arg, last_error),
                               worktree |-> worktree, rollbacks |-> rollbacks])
    /\ checked' = <<>>
    /\ \/ /\ raw' \in RawResponses
          /\ pc' = "extract_diff"
          /\ UNCHANGED <<caught, pendingFailure, results>>
       \/ /\ Fail("backend", "backend error")
          /\ raw' = raw
    /\ UNCHANGED <<phase, worktree, tests, exc, repairLoops, start, publ,
                   task_arg, attempt, last_error, diff, rollbacks, applies>>

\* line 227
ExtractDiff ==
    /\ pc = "extract_diff"
    /\ LET r == extract_diff(raw)
       IN  IF r.ok
           THEN /\ diff' = r.diff
                /\ pc' = "git_apply_check"
                /\ UNCHANGED <<caught, pendingFailure, results>>
           ELSE /\ Fail("extract", r.err)
                /\ diff' = diff
    /\ UNCHANGED <<phase, worktree, tests, exc, repairLoops, start, publ,
                   task_arg, attempt, last_error, raw, calls, rollbacks,
                   checked, applies>>

\* mutant: the exit code of git apply --check is not looked at
GitApplyCheck_Unchecked ==
    /\ pc = "git_apply_check"
    /\ \E out \in CheckOutcomes(worktree, diff) :
          /\ pc' = "git_apply"
          /\ checked' = IF out = None THEN diff ELSE checked
    /\ UNCHANGED <<phase, worktree, tests, exc, repairLoops, start, publ,
                   task_arg, attempt, last_error, raw, diff, caught, calls,
                   results, rollbacks, pendingFailure, applies>>

\* git_apply_check (lines 127-136), called at line 231
GitApplyCheck ==
    /\ pc = "git_apply_check"
    /\ \E out \in CheckOutcomes(worktree, diff) :
          IF out = None
          THEN /\ pc' = "git_apply"
               /\ checked' = diff
               /\ UNCHANGED <<caught, pendingFailure, results>>
          ELSE /\ Fail("check", out)
               /\ checked' = checked
    /\ UNCHANGED <<phase, worktree, tests, exc, repairLoops, start, publ,
                   task_arg, attempt, last_error, raw, diff, calls, rollbacks,
                   applies>>

\* git_apply (lines 138-147), called at line 232, and the return (line 233)
\* into main (line 264 or 271)
GitApply ==
    /\ pc = "git_apply"
    /\ applies' = Append(applies, [phase |-> phase, attempt |-> attempt,
                                   diff |-> diff, checked |-> checked,
                                   pending |-> pendingFailure,
                                   before |-> worktree])
    /\ \/ /\ worktree' = ApplyDiff(worktree, diff)
          /\ pc' = IF phase = "primary" THEN "run_tests" ELSE "run_tests_after_fix"
          /\ results' = Append(results, [phase |-> phase, attempt |-> attempt,
                                         outcome |-> "ok", error |-> None])
          /\ UNCHANGED <<caught, pendingFailure>>
       \/ /\ Fail("apply", "error: apply failed")
          /\ worktree' = worktree
    /\ UNCHANGED <<phase, tests, exc, repairLoops, start, publ, task_arg,
                   attempt, last_error, raw, diff, calls, rollbacks, checked>>

\* mutant: the loop runs one attempt too many (range(1, MAX + 2))
HardReset_OffByOne ==
    /\ pc = "hard_reset"
    /\ worktree' = ResetHard(worktree)
    /\ rollbacks' = rollbacks + 1
    /\ pendingFailure' = FALSE
    /\ last_error' = caught
    /\ IF attempt + 1 <= MAX_DIFF_ATTEMPTS + 1
       THEN pc' = "call_ollama" /\ attempt' = attempt + 1 /\ exc' = exc
       ELSE pc' = "failed" /\ attempt' = attempt /\ exc' = CeilingError(caught)
    /\ UNCHANGED <<phase, tests, repairLoops, start, publ, task_arg, raw, diff,
                   caught, calls, results, checked, applies>>

\* mutant: the attempt counter is not advanced by a failed attempt
HardReset_NoAdvance ==
    /\ pc = "hard_reset"
    /\ worktree' = ResetHard(worktree)
    /\ rollbacks' = rollbacks + 1
    /\ pendingFailure' = FALSE
    /\ last_error' = caught
    /\ pc' = "call_ollama"
    /\ UNCHANGED <<phase, tests, exc, repairLoops, start, publ, task_arg,
                   attempt, raw, diff, caught, calls, results, checked, applies>>

\* the except clause (lines 234-237), the next iteration (line 212) and the
\* raise that ends an exhausted loop (line 239)
HardReset ==
    /\ pc = "hard_reset"
    /\ worktree' = ResetHard(worktree)
    /\ rollbacks' = rollbacks + 1
    /\ pendingFailure' = FALSE
    /\ last_error' = caught
    /\ IF attempt + 1 <= MAX_DIFF_ATTEMPTS
       THEN pc' = "call_ollama" /\ attempt' = attempt + 1 /\ exc' = exc
       ELSE pc' = "failed" /\ attempt' = attempt /\ exc' = CeilingError(caught)
    /\ UNCHANGED <<phase, tests, repairLoops, start, publ, task_arg, raw, diff,
                   caught, calls, results, checked, applies>>

\* ------------------------------------------------------------- testing
\* subprocess.run cannot start the harness (line 155)
HarnessError == Raise("harness", <<"dotnet: command not found">>)

\* mutant: a harness that cannot start is reported and then treated as
\* a failed test run
RunTests_HarnessRepairs ==
    /\ pc = "run_tests"
    /\ \/ /\ exc' = HarnessError
          /\ pendingFailure' = TRUE
          /\ repairLoops' = repairLoops + 1
          /\ phase' = "repair"
          /\ task_arg' = FixTask(TASK, <<>>)
          /\ last_error' = None
          /\ attempt' = 1
          /\ pc' = "call_ollama"
          /\ tests' = tests
       \/ \E ok \in BOOLEAN, output \in TestOutputs :
             /\ tests' = Append(tests, [ok |-> ok, output |-> output])
             /\ IF ok
                THEN /\ pc' = "commit_all"
                     /\ UNCHANGED <<phase, exc, repairLoops, task_arg, attempt,
                                    last_error, pendingFailure>>
                ELSE /\ pendingFailure' = TRUE
                     /\ repairLoops' = repairLoops + 1
                     /\ phase' = "repair"
                     /\ task_arg' = FixTask(TASK, output)
                     /\ last_error' = None
                     /\ attempt' = 1
                     /\ pc' = "call_ollama"
                     /\ exc' = exc
    /\ UNCHANGED <<worktree, start, publ, raw, diff, caught, calls, results,
                   rollbacks, checked, applies>>

\* mutant: the test of line 266 is inverted (if ok)
RunTests_Inverted ==
    /\ pc = "run_tests"
    /\ \/ /\ pc' = "failed"
          /\ exc' = HarnessError
          /\ UNCHANGED <<phase, tests, repairLoops, task_arg, attempt,
                         last_error, pendingFailure>>
       \/ \E ok \in BOOLEAN, output \in TestOutputs :
             /\ tests' = Append(tests, [ok |-> ok, output |-> output])
             /\ IF ~ok
                THEN /\ pc' = "commit_all"
                     /\ UNCHANGED <<phase, exc, repairLoops, task_arg, attempt,
                                    last_error, pendingFailure>>
                ELSE /\ pendingFailure' = pendingFailure
                     /\ repairLoops' = repairLoops + 1
                     /\ phase' = "repair"
                     /\ task_arg' = FixTask(TASK, output)
                     /\ last_error' = None
                     /\ attempt' = 1
                     /\ IF 1 <= MAX_DIFF_ATTEMPTS
                        THEN pc' = "call_ollama" /\ exc' = exc
                        ELSE pc' = "failed" /\ exc' = CeilingError(None)
    /\ UNCHANGED <<worktree, start, publ, raw, diff, caught, calls, results,
                   rollbacks, checked, applies>>

\* run_tests (lines 153-157) at line 264, then lines 265-269: a failing
\* run composes fix_task and enters generate_and_apply(fix_task)
RunTests ==
    /\ pc = "run_tests"
    /\ \/ /\ pc' = "failed"
          /\ exc' = HarnessError
          /\ UNCHANGED <<phase, tests, repairLoops, task_arg, attempt,
                         last_error, pendingFailure>>
       \/ \E ok \in BOOLEAN, output \in TestOutputs :
             /\ tests' = Append(tests, [ok |-> ok, output |-> output])
             /\ IF ok
                THEN /\ pc' = "commit_all"
                     /\ UNCHANGED <<phase, exc, repairLoops, task_arg, attempt,
                                    last_error, pendingFailure>>
                ELSE /\ pendingFailure' = TRUE
                     /\ repairLoops' = repairLoops + 1
                     /\ phase' = "repair"
                     /\ task_arg' = FixTask(TASK, output)
                     /\ last_error' = None
                     /\ attempt' = 1
                     /\ IF 1 <= MAX_DIFF_ATTEMPTS
                        THEN pc' = "call_ollama" /\ exc' = exc
                        ELSE pc' = "failed" /\ exc' = CeilingError(None)
    /\ UNCHANGED <<worktree, start, publ, raw, diff, caught, calls, results,
                   rollbacks, checked, applies>>

\* mutant: a second failure starts another repair round
RunTestsAfterFix_Again ==
    /\ pc = "run_tests_after_fix"
    /\ \E ok \in BOOLEAN, output \in TestOutputs :
          /\ tests' = Append(tests, [ok |-> ok, output |-> output])
          /\ IF ok
             THEN /\ pc' = "commit_all"
                  /\ UNCHANGED <<repairLoops, task_arg, attempt, last_error,
                                 pendingFailure>>
             ELSE /\ pc' = "call_ollama"
                  /\ pendingFailure' = TRUE
                  /\ repairLoops' = repairLoops + 1
                  /\ task_arg' = FixTask(TASK, output)
                  /\ last_error' = None
                  /\ attempt' = 1
    /\ UNCHANGED <<phase, worktree, exc, start, publ, raw, diff, caught, calls,
                   results, rollbacks, checked, applies>>

\* mutant: the result of the second test run is not looked at
RunTestsAfterFix_Ignored ==
    /\ pc = "run_tests_after_fix"
    /\ \E ok \in BOOLEAN, output \in TestOutputs :
          /\ tests' = Append(tests, [ok |-> ok, output |-> output])
          /\ pc' = "commit_all"
    /\ UNCHANGED <<phase, worktree, exc, repairLoops, start, publ, locals,
                   calls, results, rollbacks, pendingFailure, checked, applies>>

\* run_tests at line 271, then lines 272-274
RunTestsAfterFix ==
    /\ pc = "run_tests_after_fix"
    /\ \/ /\ pc' = "failed"
          /\ exc' = HarnessError
          /\ UNCHANGED <<tests, pendingFailure>>
       \/ \E ok \in BOOLEAN, output \in TestOutputs :
             /\ tests' = Append(tests, [ok |-> ok, output |-> output])
             /\ IF ok
                THEN /\ pc' = "commit_all"
                     /\ UNCHANGED <<exc, pendingFailure>>
                ELSE /\ pc' = "failed"
                     /\ pendingFailure' = TRUE
                     /\ exc' = Raise("tests", <<"Tests still failing after fix. See agent_logs/ for outputs.">>)
    /\ UNCHANGED <<phase, worktree, repairLoops, start, publ, locals, calls,
                   results, rollbacks, checked, applies>>

\* --------------------------------------------------------- publication
\* commit_all (lines 180-182), called at line 276: git add -A stages
\* modified and untracked files alike, git commit records them
CommitAll ==
    /\ pc = "commit_all"
    /\ commits' = Append(commits, worktree)
    /\ worktree' = CleanTree
    /\ pc' = "push_branch"
    /\ UNCHANGED <<phase, tests, exc, repairLoops, start, pushed, pr_number,
                   auto_merge, locals, loopobs>>

\* mutant: a failed push undoes the commit (reset --hard HEAD~1)
PushBranch_Undo ==
    /\ pc = "push_branch"
    /\ \/ /\ pushed' = pushed + 1
          /\ pc' = IF pr THEN "create_pr" ELSE "done"
          /\ UNCHANGED <<exc, commits, rollbacks>>
       \/ /\ pushed' = pushed
          /\ pc' = "failed"
          /\ exc' = Raise("push", <<"git push failed">>)
          /\ commits' = SubSeq(commits, 1, Len(commits) - 1)
          /\ rollbacks' = rollbacks + 1
    /\ UNCHANGED <<phase, worktree, tests, repairLoops, start, pr_number,
                   auto_merge, locals, calls, results, pendingFailure, checked,
                   applies>>

\* push_branch (lines 184-185), called at line 277, then line 279
PushBranch ==
    /\ pc = "push_branch"
    /\ \/ /\ pushed' = pushed + 1
          /\ pc' = IF pr THEN "create_pr" ELSE "done"
          /\ exc' = exc
       \/ /\ pushed' = pushed
          /\ pc' = "failed"
          /\ exc' = Raise("push", <<"git push failed">>)
    /\ UNCHANGED <<phase, worktree, tests, repairLoops, start, commits,
                   pr_number, auto_merge, locals, loopobs>>

\* create_pr (lines 187-197), called at line 280
CreatePr ==
    /\ pc = "create_pr"
    /\ \/ /\ pr_number' = 1
          /\ pc' = "enable_auto_merge"
          /\ exc' = exc
       \/ /\ pr_number' = pr_number
          /\ pc' = "failed"
          /\ exc' = Raise("create_pr", <<"GitHub API error (create_pr)">>)
    /\ UNCHANGED <<phase, worktree, tests, repairLoops, start, commits, pushed,
                   auto_merge, locals, loopobs>>

\* enable_auto_merge (lines 199-203), called at line 285
EnableAutoMerge ==
    /\ pc = "enable_auto_merge"
    /\ \/ /\ auto_merge' = TRUE
          /\ pc' = "done"
          /\ exc' = exc
       \/ /\ auto_merge' = auto_merge
          /\ pc' = "failed"
          /\ exc' = Raise("enable_auto_merge", <<"GitHub API error (enable_auto_merge)">>)
    /\ UNCHANGED <<phase, worktree, tests, repairLoops, start, commits, pushed,
                   pr_number, locals, loopobs>>

Next ==
    \/ EnsureCleanWorktree
    \/ CreateBranch
    \/ CallOllama
    \/ ExtractDiff
    \/ GitApplyCheck
    \/ GitApply
    \/ HardReset
    \/ RunTests
    \/ RunTestsAfterFix
    \/ CommitAll
    \/ PushBranch
    \/ CreatePr
    \/ EnableAutoMerge

Spec == Init /\ [][Next]_vars

\* every external call returns: the sequential program always takes its
\* next step
FairSpec == Spec /\ WF_vars(Next)

\* ---------------------------------------------- the extractor on any text
Alphabet == {"D", "O", "C", "x", " ", "n"}

\* call_ollama returns whatever text the backend produced (line 105)
Texts == UNION { [1..k -> Alphabet] : k \in 0..MaxTextLen }

\* the first attempt of a run has received its response (line 224)
InitExtract ==
    /\ pc = "extract_diff"
    /\ phase = "primary"
    /\ pr = FALSE
    /\ worktree = CleanTree
    /\ wt0 = CleanTree
    /\ commits = <<>>
    /\ branch = TRUE
    /\ pushed = 0
    /\ pr_number = 0
    /\ auto_merge = FALSE
    /\ task_arg = TASK
    /\ attempt = 1
    /\ last_error = None
    /\ raw \in Texts
    /\ diff = <<>>
    /\ caught = None
    /\ tests = <<>>
    /\ exc = NoExc
    /\ calls = << [phase |-> "primary", attempt |-> 1, prompt |-> TASK,
                   worktree |-> CleanTree, rollbacks |-> 0] >>
    /\ results = <<>>
    /\ rollbacks = 0
    /\ statusChecks = 1
    /\ repairLoops = 0
    /\ pendingFailure = FALSE
    /\ checked = <<>>
    /\ applies = <<>>

NextExtract == ExtractDiff

SpecExtract == InitExtract /\ [][NextExtract]_vars

\* -------------------------------------------------------------- claims
FAILED == pc = "failed"

SUCCEEDED == pc \in {"commit_all", "push_branch", "create_pr", "enable_auto_merge", "done"}

PublicationErrors == {"push", "create_pr", "enable_auto_merge"}

Last(s) == s[Len(s)]

CallsIn(p) == Cardinality({ i \in DOMAIN calls : calls[i].phase = p })

FailuresIn(p) ==
    Cardinality({ i \in DOMAIN results : results[i].phase = p /\ results[i].outcome # "ok" })

Published == commits # <<>> \/ pushed > 0 \/ pr_number # 0 \/ auto_merge

\* C1: a generate-and-apply loop calls the backend at most MAX_DIFF_ATTEMPTS
\* times; once MAX_DIFF_ATTEMPTS attempts of the primary loop have failed
\* the run is FAILED with the ceiling error, after exactly
\* MAX_DIFF_ATTEMPTS calls and with no test run, no commit and no push.
C1_BoundedRetries ==
    /\ \A p \in {"primary", "repair"} : CallsIn(p) <= MAX_DIFF_ATTEMPTS
    /\ attempt <= MAX_DIFF_ATTEMPTS
    /\ (FailuresIn("primary") = MAX_DIFF_ATTEMPTS /\ pc # "hard_reset")
          => /\ FAILED
             /\ exc.kind = "ceiling"
    /\ (FAILED /\ exc.kind = "ceiling" /\ phase = "primary")
          => /\ CallsIn("primary") = MAX_DIFF_ATTEMPTS
             /\ FailuresIn("primary") = MAX_DIFF_ATTEMPTS
             /\ Len(calls) = MAX_DIFF_ATTEMPTS
             /\ tests = <<>>
             /\ ~Published

\* the backend never returned a diff marker and the primary loop gave up
C1_Witness ==
    /\ FAILED
    /\ exc.kind = "ceiling"
    /\ phase = "primary"
    /\ \A i \in DOMAIN results : results[i].error = "No git diff found in model output."

\* C2: the repair sub-loop is entered at most once and the tests run at most
\* twice; when both test runs fail the run is FAILED after exactly one
\* repair sub-loop, with no commit and no push.
C2_RepairBound ==
    /\ repairLoops <= 1
    /\ Len(tests) <= 2
    /\ (Len(tests) = 2 /\ ~tests[1].ok /\ ~tests[2].ok)
          => /\ FAILED
             /\ exc.kind = "tests"
             /\ repairLoops = 1
             /\ ~Published

\* both the first patch and the repaired worktree failed the tests
C2_Witness ==
    /\ Len(tests) = 2
    /\ ~tests[1].ok
    /\ ~tests[2].ok
    /\ FAILED

\* C3: whenever attempt k > 1 of a sub-loop calls the backend or applies a
\* diff, the worktree is CLEAN (git status shows nothing).
C3_RetryOnCleanWorktree ==
    (pc \in {"call_ollama", "git_apply"} /\ attempt > 1) => IsClean(worktree)

\* C4: no diff is applied while a failure (a failed attempt or a failed
\* test run) has not been followed by a rollback.
C4_RollbackBeforeNextApply ==
    \A i \in DOMAIN applies : ~applies[i].pending

\* C5: git apply is only invoked on the diff that git apply --check has
\* just accepted in the same attempt; an attempt whose check fails invokes
\* no apply and leaves the worktree as it was when the attempt began.
C5_ApplyOnlyAfterCheck ==
    /\ pc = "git_apply" => checked = diff
    /\ \A i \in DOMAIN applies : applies[i].checked = applies[i].diff
    /\ \A i \in DOMAIN results :
          results[i].outcome = "check"
             => ~\E j \in DOMAIN applies :
                    /\ applies[j].phase = results[i].phase
                    /\ applies[j].attempt = results[i].attempt
    /\ (pc = "hard_reset" /\ Last(results).outcome = "check")
          => worktree = Last(calls).worktree

\* one attempt was rejected by the check and a later one was applied
C5_Witness ==
    /\ \E i \in DOMAIN results : results[i].outcome = "check"
    /\ \E j \in DOMAIN applies : applies[j].checked = applies[j].diff
    /\ pc = "hard_reset"
    /\ Last(results).outcome = "check"

\* C6: the cleanliness check runs exactly once; a run that starts on a
\* dirty worktree fails at once: no branch, no backend call, no apply, no
\* rollback, no test run, no commit, and the worktree is left as found.
C6_DirtyWorktreeFailsFast ==
    /\ statusChecks <= 1
    /\ pc # "ensure_clean_worktree" => statusChecks = 1
    /\ (~(wt0.mods = <<>> /\ wt0.files = <<>>) /\ pc # "ensure_clean_worktree")
          => /\ FAILED
             /\ exc.kind = "dirty"
             /\ ~branch
             /\ calls = <<>>
             /\ applies = <<>>
             /\ rollbacks = 0
             /\ tests = <<>>
             /\ ~Published
             /\ worktree = wt0

\* the run found an untracked file and stopped
C6_Witness ==
    /\ FAILED
    /\ exc.kind = "dirty"
    /\ wt0.files # <<>>
    /\ statusChecks = 1

\* C7: a commit, push or pull request exists only if a diff was applied and
\* the most recent test run passed; a run that failed on the ceiling, the
\* tests or the harness has published nothing.
C7_CommitOnlyWhenSucceeded ==
    /\ Len(commits) <= 1
    /\ (Published \/ SUCCEEDED)
          => /\ tests # <<>>
             /\ Last(tests).ok
             /\ applies # <<>>
             /\ Last(results).outcome = "ok"
    /\ (FAILED /\ exc.kind \in {"dirty", "ceiling", "harness", "tests"}) => ~Published
    /\ pushed > 0 => commits # <<>>

\* the repaired worktree passed the tests and was committed
C7_Witness ==
    /\ Len(commits) = 1
    /\ Len(tests) = 2
    /\ pushed = 1

\* C8: when the first attempt applies its diff and the first test run
\* passes, the run makes one backend call, one test run, no rollback and
\* no repair sub-loop, goes on to publication, and ends with exactly one
\* commit and one push.
C8_HappyPath ==
    (/\ results # <<>>
     /\ results[1].outcome = "ok"
     /\ tests # <<>>
     /\ tests[1].ok)
       => /\ Len(calls) = 1
          /\ Len(tests) = 1
          /\ rollbacks = 0
          /\ repairLoops = 0
          /\ Len(commits) <= 1
          /\ pushed <= 1
          /\ SUCCEEDED \/ (FAILED /\ exc.kind \in PublicationErrors)
          /\ pc \in {"create_pr", "enable_auto_merge", "done"}
                => (Len(commits) = 1 /\ pushed = 1)

\* the happy path has run to its end
C8_Witness ==
    /\ pc = "done"
    /\ results[1].outcome = "ok"
    /\ tests[1].ok
    /\ Len(calls) = 1

\* C9: when attempt 1 fails git apply --check, attempt 2 applies and the
\* tests pass, the run has made exactly 2 backend calls, the prompt of
\* attempt 2 holds the conflict detail of attempt 1, one rollback lies
\* between the two calls and the run goes on to publication.
C9_RecoveryFromConflict ==
    (/\ Len(results) >= 2
     /\ results[1].outcome = "check"
     /\ results[2].outcome = "ok"
     /\ tests # <<>>
     /\ tests[1].ok)
       => /\ Len(calls) = 2
          /\ \E i \in DOMAIN calls[2].prompt : calls[2].prompt[i] = results[1].error
          /\ calls[2].prompt # calls[1].prompt
          /\ calls[2].rollbacks = calls[1].rollbacks + 1
          /\ calls[2].worktree = CleanTree
          /\ repairLoops = 0
          /\ SUCCEEDED \/ (FAILED /\ exc.kind \in PublicationErrors)

\* the recovery scenario has run to its end
C9_Witness ==
    /\ pc = "done"
    /\ Len(results) = 2
    /\ results[1].outcome = "check"
    /\ results[1].error = "error: patch does not apply"
    /\ results[2].outcome = "ok"
    /\ tests[1].ok

\* C10: once the commit exists nothing changes it, the worktree or the
\* rollback count any more, and a run ended by a push, pull-request or
\* auto-merge failure still has its commit.
C10_PublicationFailureKeepsCommit ==
    /\ []((FAILED /\ exc.kind \in PublicationErrors) => Len(commits) = 1)
    /\ [][commits # <<>> => (/\ commits' = commits
                             /\ worktree' = worktree
                             /\ rollbacks' = rollbacks)]_vars

\* the push, the pull request or the auto-merge failed after the commit
C10_Witness ==
    /\ FAILED
    /\ exc.kind = "enable_auto_merge"
    /\ Len(commits) = 1

\* s holds the sequence sub as a contiguous part
ContainsSeq(s, sub) ==
    \E i \in 0..(Len(s) - Len(sub)) : SubSeq(s, i + 1, i + Len(sub)) = sub

TestsStillFailing == <<"Tests still failing after fix. See agent_logs/ for outputs.">>

Terminal == pc \in {"done", "failed"}

\* steps left in the attempt that is at pc
StepRank ==
    CASE pc = "call_ollama"     -> 5
      [] pc = "extract_diff"    -> 4
      [] pc = "git_apply_check" -> 3
      [] pc = "git_apply"       -> 2
      [] pc = "hard_reset"      -> 1
      [] OTHER                  -> 0

\* an upper bound of the number of steps the run can still take
Rank ==
    CASE pc \in {"done", "failed"}     -> 0
      [] pc = "enable_auto_merge"      -> 1
      [] pc = "create_pr"              -> 2
      [] pc = "push_branch"            -> 3
      [] pc = "commit_all"             -> 4
      [] pc = "run_tests_after_fix"    -> 5
      [] pc = "run_tests"              -> 6 * MAX_DIFF_ATTEMPTS + 5
      [] pc = "create_branch"          -> 12 * MAX_DIFF_ATTEMPTS + 5
      [] pc = "ensure_clean_worktree"  -> 12 * MAX_DIFF_ATTEMPTS + 6
      [] OTHER -> (IF phase = "primary" THEN 6 * MAX_DIFF_ATTEMPTS + 5 ELSE 5)
                     + 6 * (MAX_DIFF_ATTEMPTS - attempt) + StepRank

\* C12: every run ends in done (SUCCEEDED and published) or failed: each
\* step strictly lowers a natural-number bound of the steps left, so no
\* cycle through generating, validating, applying, testing and repairing
\* exists; a run that is not at its end can always take a step; and when
\* every call returns the run does reach its end.
C12_Termination ==
    /\ [](Rank \in Nat)
    /\ [][Rank' < Rank]_vars
    /\ [](~Terminal => ENABLED Next)
    /\ <>Terminal

\* a run that went through the repair sub-loop has ended
C12_Witness ==
    /\ Terminal
    /\ repairLoops = 1
    /\ CallsIn("repair") = MAX_DIFF_ATTEMPTS

Extracted == pc = "git_apply_check"

Rejected == pc = "hard_reset" /\ Last(results).outcome = "extract"

Markers(text) == { i \in 1..Len(text) : text[i] = "D" }

FromMarker(text) == SubSeq(text, Min(Markers(text)), Len(text))

\* d is the text from the first marker on, without its trailing blanks,
\* and a newline
TrimmedFromMarker(text, d) ==
    /\ Len(d) >= 2
    /\ d[1] = "D"
    /\ d[Len(d)] = "n"
    /\ d[Len(d) - 1] \notin Blank
    /\ Len(d) - 1 <= Len(FromMarker(text))
    /\ \A i \in 1..(Len(d) - 1) : d[i] = FromMarker(text)[i]
    /\ \A i \in Len(d)..Len(FromMarker(text)) : FromMarker(text)[i] \in Blank

\* C13 (as stated): a text without the marker is rejected; a text with the
\* marker is extracted, from the first marker to the end, trimmed and
\* ended by a newline.
C13_ExtractorAsStated ==
    pc # "extract_diff"
       => /\ Markers(raw) = {} => Rejected
          /\ Markers(raw) # {} => (Extracted /\ TrimmedFromMarker(raw, diff))

\* the texts extract_diff accepts: the marker is followed by at least one
\* character, and from the marker on an open marker comes with as many
\* close markers
Extractable(text) ==
    /\ Markers(text) # {}
    /\ Min(Markers(text)) < Len(text)
    /\ Has(FromMarker(text), "O")
          => Count(FromMarker(text), "O") = Count(FromMarker(text), "C")

\* C13 (amended): a text is extracted exactly when it holds the marker
\* followed by at least one more character and, from the marker on, either
\* no open marker or as many close markers as open markers; every other
\* text is rejected, a text without the marker with "No git diff found";
\* an extracted diff is the text from the first marker to the end,
\* trimmed and ended by a newline.
C13_Extractor ==
    pc # "extract_diff"
       => /\ Extracted \/ Rejected
          /\ Extracted <=> Extractable(raw)
          /\ Extracted => TrimmedFromMarker(raw, diff)
          /\ Markers(raw) = {} => caught = "No git diff found in model output."

\* prose, then the marker, a line and a trailing blank
C13_Witness ==
    /\ Extracted
    /\ raw = <<"x", "D", "x", " ">>
    /\ diff = <<"D", "x", "n">>

\* the text holds a diff for the checks of lines 119-123 to look at
HasDiff(text) == Markers(text) # {} /\ Min(Markers(text)) < Len(text)

Opens(text) == Count(FromMarker(text), "O")

Closes(text) == Count(FromMarker(text), "C")

\* C14 (as stated): a diff that holds an open or a close marker is accepted
\* if and only if it holds as many open markers as close markers.
C14_BalanceAsStated ==
    (pc # "extract_diff" /\ HasDiff(raw) /\ (Opens(raw) > 0 \/ Closes(raw) > 0))
       => (Extracted <=> Opens(raw) = Closes(raw))

\* C14 (amended): a diff that holds an open marker is accepted if and only
\* if it holds as many close markers as open markers; a diff without an
\* open marker is accepted whatever its number of close markers; a diff
\* with 2 open markers and 1 close marker is rejected.
C14_Balance ==
    (pc # "extract_diff" /\ HasDiff(raw))
       => /\ Opens(raw) > 0 => (Extracted <=> Opens(raw) = Closes(raw))
          /\ Opens(raw) = 0 => Extracted
          /\ (Opens(raw) > 0 /\ Closes(raw) = 0)
                => (Rejected /\ caught = "Incomplete XML in diff (missing </Project>).")
          /\ (Opens(raw) > 0 /\ Closes(raw) > 0 /\ Opens(raw) # Closes(raw))
                => (Rejected /\ caught = "Mismatched <Project> XML tags in diff.")
          /\ (Opens(raw) = 2 /\ Closes(raw) = 1) => Rejected

\* a diff with 2 open markers and 1 close marker was rejected
C14_Witness ==
    /\ raw = <<"D", "O", "O", "C">>
    /\ Rejected
    /\ caught = "Mismatched <Project> XML tags in diff."

\* C15: every rollback leaves the worktree CLEAN, whatever state it starts
\* from; a rollback right after a rollback, or on a CLEAN worktree,
\* changes nothing.
C15_RollbackRestoresClean ==
    [][pc = "hard_reset"
          => /\ IsClean(worktree')
             /\ IsClean(worktree) => worktree' = worktree
             /\ ResetHard(worktree') = worktree']_vars

\* C16: a harness that cannot be started ends the run at once: the run is
\* FAILED with the harness error, the failed start is no test result, no
\* repair sub-loop is entered for it and no backend call follows the
\* apply that preceded it; a failing test run is a result (ok = FALSE,
\* output), not an error: the first one starts the repair sub-loop.
C16_HarnessStartFailureIsFatal ==
    /\ exc.kind = "harness"
          => /\ FAILED
             /\ Len(calls) = Len(results)
             /\ Last(results).outcome = "ok"
             /\ repairLoops = Len(tests)
             /\ \A i \in DOMAIN tests : ~tests[i].ok
             /\ phase = "primary" => (tests = <<>> /\ CallsIn("repair") = 0)
             /\ ~Published
    /\ \A i \in DOMAIN tests : tests[i].output \in TestOutputs
    /\ (tests # <<>> /\ ~tests[1].ok)
          => /\ repairLoops = 1
             /\ phase = "repair"
             /\ (Len(tests) = 1 /\ FAILED) => exc.kind \in {"ceiling", "harness"}

\* the harness could not be started for the first test run
C16_Witness ==
    /\ FAILED
    /\ exc.kind = "harness"
    /\ phase = "primary"
    /\ Len(calls) = 2

\* C17: the rollback that follows an extraction or validation failure
\* changes nothing: the worktree after it is the worktree the attempt
\* began with.
C17_RollbackAfterExtractionIsNoOp ==
    [][(pc = "hard_reset" /\ Last(results).outcome = "extract")
          => /\ worktree' = worktree
             /\ worktree' = Last(calls).worktree]_vars

\* the task text of the sub-loop a backend call belongs to
SubLoopTask(c) ==
    IF c.phase = "primary"
    THEN <<"add a Clamp function">>
    ELSE <<"add a Clamp function", "TEST OUTPUT:">> \o tests[1].output

\* C18: in each sub-loop the prompt of attempt 1 is the sub-loop's task
\* text (the Task; in the repair sub-loop the Task and the output of the
\* first test run), and the prompt of attempt k > 1 is that text followed
\* by the failure message of attempt k - 1 of the same sub-loop and
\* nothing of earlier attempts; the repair sub-loop starts at attempt 1.
C18_PromptComposition ==
    \A i \in DOMAIN calls :
        /\ calls[i].attempt = 1 => calls[i].prompt = SubLoopTask(calls[i])
        /\ calls[i].attempt > 1
              => /\ results[i - 1].phase = calls[i].phase
                 /\ results[i - 1].attempt = calls[i].attempt - 1
                 /\ results[i - 1].outcome # "ok"
                 /\ calls[i].prompt =
                       SubLoopTask(calls[i])
                          \o <<"PREVIOUS FAILURE:", results[i - 1].error,
                               "Return a corrected FULL git diff. Output ONLY the diff.">>
        /\ (i > 1 /\ calls[i].phase # calls[i - 1].phase) => calls[i].attempt = 1
        /\ i = 1 => (calls[i].attempt = 1 /\ calls[i].phase = "primary")

\* the repair sub-loop reached its third attempt after two different
\* failures, the primary loop having failed once before its patch applied
C18_Witness ==
    /\ Len(calls) = 5
    /\ calls[2].phase = "primary"
    /\ calls[5].phase = "repair"
    /\ calls[5].attempt = 3
    /\ results[1].error # results[3].error
    /\ results[3].error # results[4].error

\* C19: at the final test run and at the commit the uncommitted changes
\* of the worktree are the effect of exactly one applied diff, the one
\* accepted last; the commit records that diff alone.
C19_CommitIsSingleDiff ==
    /\ pc \in {"run_tests", "run_tests_after_fix", "commit_all"}
          => worktree = [mods  |-> IF Has(diff, "M") THEN <<diff>> ELSE <<>>,
                         files |-> IF Has(diff, "N") THEN <<diff>> ELSE <<>>]
    /\ \A i \in DOMAIN commits : Len(commits[i].mods) + Len(commits[i].files) = 1

\* C20: a run FAILED on the attempt ceiling, in the primary loop or in the
\* repair sub-loop, ends with a CLEAN worktree.
C20_CeilingFailureLeavesClean ==
    (FAILED /\ exc.kind = "ceiling") => (worktree.mods = <<>> /\ worktree.files = <<>>)

====
